---------------------------- MODULE Spec2Model ----------------------------
(***************************************************************************)
(* State-machine model of the flower-shop backend, src/server/index.js.    *)
(*                                                                         *)
(* Every HTTP request is an async Express handler.  A handler runs         *)
(* atomically between two `await`s, so each action below is one such       *)
(* segment: the statement awaited plus the synchronous code that follows   *)
(* it up to the next await.  Requests occupy slots (Reqs); several slots   *)
(* may be in flight at once and their segments interleave freely.          *)
(*                                                                         *)
(* The MySQL server is modelled as the code uses it (mysql2 pool, InnoDB,  *)
(* default REPEATABLE READ):                                               *)
(*   - db.query(...) is an autocommit statement on the committed tables;   *)
(*   - inside conn.beginTransaction()/commit(), a plain SELECT is a        *)
(*     non-locking read of the committed rows, INSERT/UPDATE are buffered  *)
(*     in tx[r] and become visible at commit, an UPDATE takes the row's    *)
(*     exclusive lock until commit/rollback and waits while another        *)
(*     transaction holds it;                                               *)
(*   - AUTO_INCREMENT counters advance at INSERT and are not rolled back;  *)
(*   - any statement may fail (connection lost, lock wait timeout,         *)
(*     deadlock victim), which the driver reports by throwing.             *)
(***************************************************************************)
EXTENDS Integers, Sequences, FiniteSets, TLC

VARIABLES
    products,       \* table products:      id -> row
    orders,         \* table orders:        id -> row
    order_items,    \* table order_items:   sequence of rows, in insertion order
    notifications,  \* table notifications: id -> row
    autoInc,        \* AUTO_INCREMENT counter of each table
    emitted,        \* number of "new_notification" broadcasts made by io.emit
    pc,             \* position of the handler running in each slot
    body,           \* the request (req.params, req.body, req.file) of each slot
    local,          \* the handler's local variables
    resp,           \* the response sent to the caller (res.status(..).json(..))
    tx,             \* the slot's open transaction: buffered writes and row locks
    ghost,          \* history: effects on the tables, releases, responses sent
    stock0,         \* history: the catalog's stock levels in the initial state
    faults,         \* number of statements that have failed so far
    nreq            \* number of requests received so far

vars == <<products, orders, order_items, notifications, autoInc, emitted,
          pc, body, local, resp, tx, ghost, stock0, faults, nreq>>

tables == <<products, orders, order_items, notifications>>

-----------------------------------------------------------------------------
(* Bounds of the model *)

MaxReq == 2         \* request slots: how many handlers may be in flight at once
MaxRequests == 2    \* requests received in one behaviour
MaxFaults == 1      \* storage or broadcast failures injected in one behaviour

(* Program constants *)

LowStockThreshold == 20

Reqs == 1..MaxReq

-----------------------------------------------------------------------------
(* Generic helpers *)

Range(f) == {f[x] : x \in DOMAIN f}

Min(S) == CHOOSE x \in S : \A y \in S : x <= y

RECURSIVE SumSeq(_)
SumSeq(s) == IF s = <<>> THEN 0 ELSE Head(s) + SumSeq(Tail(s))

Restrict(f, S) == [x \in S |-> f[x]]

SelectIdx(s, P(_)) == {i \in DOMAIN s : P(s[i])}

-----------------------------------------------------------------------------
(* Strings that the code inspects character by character *)

S_pending == <<"p", "e", "n", "d", "i", "n", "g">>
S_Pending == <<"P", "e", "n", "d", "i", "n", "g">>
S_delivered == <<"d", "e", "l", "i", "v", "e", "r", "e", "d">>
S_Delivered == <<"D", "e", "l", "i", "v", "e", "r", "e", "d">>
S_cancelled == <<"c", "a", "n", "c", "e", "l", "l", "e", "d">>
S_returned == <<"r", "e", "t", "u", "r", "n", "e", "d">>
S_CancelledReturned ==
    <<"C", "a", "n", "c", "e", "l", "l", "e", "d", "/",
      "R", "e", "t", "u", "r", "n", "e", "d">>
S_shipped == <<"s", "h", "i", "p", "p", "e", "d">>
S_CANCELLED_by_customer ==
    <<"C", "A", "N", "C", "E", "L", "L", "E", "D", " ",
      "b", "y", " ", "c", "u", "s", "t", "o", "m", "e", "r">>
S_pending_padded == <<" ">> \o S_pending \o <<" ">>
S_shipped_padded == <<" ", " ">> \o S_shipped \o <<" ">>
S_Returned_to_sender ==
    <<"R", "e", "t", "u", "r", "n", "e", "d", " ", "t", "o", " ",
      "s", "e", "n", "d", "e", "r">>
S_delivered_not_pending ==
    S_delivered \o <<" ", "n", "o", "t", " ">> \o S_pending

UpperCase ==
    <<"A", "B", "C", "D", "E", "F", "G", "H", "I", "J", "K", "L", "M",
      "N", "O", "P", "Q", "R", "S", "T", "U", "V", "W", "X", "Y", "Z">>
LowerCase ==
    <<"a", "b", "c", "d", "e", "f", "g", "h", "i", "j", "k", "l", "m",
      "n", "o", "p", "q", "r", "s", "t", "u", "v", "w", "x", "y", "z">>

(* String.prototype.toLowerCase *)
ToLowerCase(str) ==
    [i \in DOMAIN str |->
        IF \E k \in DOMAIN UpperCase : UpperCase[k] = str[i]
        THEN LowerCase[CHOOSE k \in DOMAIN UpperCase : UpperCase[k] = str[i]]
        ELSE str[i]]

(* String.prototype.includes *)
Includes(str, word) ==
    \E i \in 1..(Len(str) - Len(word) + 1) :
        SubSeq(str, i, i + Len(word) - 1) = word

(* /word/i.test(str) for a word of lower-case letters *)
TestIgnoreCase(word, str) == Includes(ToLowerCase(str), word)

(* String.prototype.trim *)
RECURSIVE TrimStart(_)
TrimStart(str) ==
    IF str # <<>> /\ Head(str) = " " THEN TrimStart(Tail(str)) ELSE str

RECURSIVE TrimEnd(_)
TrimEnd(str) ==
    IF str # <<>> /\ str[Len(str)] = " "
    THEN TrimEnd(SubSeq(str, 1, Len(str) - 1)) ELSE str

Trim(str) == TrimEnd(TrimStart(str))

-----------------------------------------------------------------------------
(* Responses *)

NoResp == [status |-> 0, error |-> "none"]
Ok(msg) == [status |-> 200, error |-> "none", message |-> msg]
Err(code, e) == [status |-> code, error |-> e]

NoTx == [active |-> FALSE, orders |-> <<>>, order_items |-> <<>>, stock |-> <<>>]
NoLocal == [i |-> 0]
NoBody == [kind |-> "none"]
Ghost0 == [effects |-> 0, releases |-> 0, responses |-> 0, conn |-> FALSE]

-----------------------------------------------------------------------------
(* History bookkeeping, conjoined to every step of slot r: counts the steps *)
(* of the request in r that changed a committed table.                      *)

Track(r, g) ==
    ghost' = [ghost EXCEPT ![r] =
                [g EXCEPT !.effects = @ + (IF tables' # tables THEN 1 ELSE 0)]]

(* A handler ends: the response (if any) is recorded; the locals are kept  *)
(* as the history of what the request read                                *)
Finish(r, response) ==
    /\ pc' = [pc EXCEPT ![r] = "done"]
    /\ resp' = [resp EXCEPT ![r] = response]
    /\ UNCHANGED local

(* Row locks: the slots whose open transaction has updated product p *)
LockHolders(p) == {q \in Reqs : tx[q].active /\ p \in DOMAIN tx[q].stock}

(* A statement completes (ok) or throws; a throw uses up one fault *)
Attempt(ok) ==
    /\ ok \/ faults < MaxFaults
    /\ faults' = IF ok THEN faults ELSE faults + 1

Free(r) == pc[r] \in {"idle", "done"}

(* A request arrives in the lowest free slot *)
CanReceive(r) ==
    /\ Free(r)
    /\ nreq < MaxRequests
    /\ \A q \in Reqs : q < r => ~Free(q)

Receive(r, b, label, response) ==
    /\ pc' = [pc EXCEPT ![r] = label]
    /\ body' = [body EXCEPT ![r] = b]
    /\ resp' = [resp EXCEPT ![r] = response]
    /\ local' = [local EXCEPT ![r] = NoLocal]
    /\ nreq' = nreq + 1

-----------------------------------------------------------------------------
(* POST /orders *)

Item(p, q) == [product_id |-> p, quantity |-> q]

OrderBody(items) ==
    [kind |-> "order", user_name |-> "ana", payment_mode |-> "cash",
     items |-> items]

(* Requests that contend for the same rows: one and two lines, the two     *)
(* products in both orders.                                                *)
RaceBodies ==
    { OrderBody(<<Item(1, 1)>>), OrderBody(<<Item(1, 2)>>),
      OrderBody(<<Item(1, 1), Item(2, 1)>>),
      OrderBody(<<Item(2, 1), Item(1, 1)>>) }

(* Requests that exercise the handler's checks: missing fields, an empty   *)
(* item list, a non-positive quantity, the quantities of the 30/15/16      *)
(* round trip, the same product twice, an unknown product id (9) after a   *)
(* valid line, after a line that exceeds the stock, and before one.        *)
CheckBodies ==
    { [OrderBody(<<Item(1, 1)>>) EXCEPT !.user_name = ""],
      [OrderBody(<<Item(1, 1)>>) EXCEPT !.payment_mode = ""],
      OrderBody(<<>>),
      OrderBody(<<Item(1, -1)>>),
      OrderBody(<<Item(1, 15)>>), OrderBody(<<Item(1, 16)>>),
      OrderBody(<<Item(2, 1), Item(1, 1)>>),
      OrderBody(<<Item(1, 1), Item(1, 2)>>),
      OrderBody(<<Item(2, 1), Item(9, 1)>>),
      OrderBody(<<Item(1, 99), Item(9, 1)>>),
      OrderBody(<<Item(9, 1), Item(1, 99)>>) }

(* if (!user_name || !payment_mode || !items?.length) *)
OrderBodyInvalid(b) ==
    b.user_name = "" \/ b.payment_mode = "" \/ Len(b.items) = 0

PostOrders(r, bodies) ==
    /\ CanReceive(r)
    /\ \E b \in bodies :
          IF OrderBodyInvalid(b)
          THEN Receive(r, b, "done", Err(400, "ValidationError"))
          ELSE Receive(r, b, "getConnection", NoResp)
    /\ UNCHANGED <<products, orders, order_items, notifications, autoInc,
                   emitted, tx, stock0, faults>>
    /\ Track(r, [Ghost0 EXCEPT !.responses =
                    IF pc'[r] = "done" THEN 1 ELSE 0])

(* const conn = await db.getConnection();  -- before the try block: a       *)
(* rejection leaves the handler without a response                          *)
OrderGetConnection(r) ==
    /\ pc[r] = "getConnection"
    /\ UNCHANGED <<products, orders, order_items, notifications, autoInc,
                   emitted, body, tx, stock0, nreq>>
    /\ \E ok \in BOOLEAN :
          /\ Attempt(ok)
          /\ IF ok
             THEN /\ pc' = [pc EXCEPT ![r] = "beginTransaction"]
                  /\ UNCHANGED <<resp, local>>
                  /\ Track(r, [ghost[r] EXCEPT !.conn = TRUE])
             ELSE /\ Finish(r, NoResp)
                  /\ Track(r, ghost[r])

(* A statement inside the try block threw: control goes to the catch block *)
OrderThrow(r, e) ==
    /\ pc' = [pc EXCEPT ![r] = "rollback"]
    /\ local' = [local EXCEPT ![r] =
                    [f \in DOMAIN @ \cup {"err"} |-> IF f = "err" THEN e ELSE @[f]]]

(* await conn.beginTransaction(); *)
OrderBeginTransaction(r) ==
    /\ pc[r] = "beginTransaction"
    /\ \E ok \in BOOLEAN :
          /\ Attempt(ok)
          /\ IF ok
             THEN /\ pc' = [pc EXCEPT ![r] = "select"]
                  /\ tx' = [tx EXCEPT ![r] = [NoTx EXCEPT !.active = TRUE]]
                  /\ UNCHANGED local
             ELSE /\ OrderThrow(r, "StorageError")
                  /\ UNCHANGED tx
    /\ UNCHANGED <<products, orders, order_items, notifications, autoInc,
                   emitted, body, resp, stock0, nreq>>
    /\ Track(r, ghost[r])

(* SELECT id, name, price, stock FROM products WHERE id IN (productIds) *)
SelectProducts(ids) ==
    [p \in ids \cap DOMAIN products |->
        [name |-> products[p].name, price |-> products[p].price,
         stock |-> products[p].stock]]

(* Mutant: the stock check is left out *)
BadLines_NoStockCheck(items, rows) ==
    {i \in DOMAIN items : items[i].product_id \notin DOMAIN rows}

(* The lines on which items.map(...) throws, given the rows read *)
BadLines(items, rows) ==
    {i \in DOMAIN items :
        \/ items[i].product_id \notin DOMAIN rows
        \/ items[i].quantity > rows[items[i].product_id].stock}

(* Mutant: every rejected line is reported as out of stock *)
LineError_AlwaysStock(item, rows) == "NotEnoughStock"

LineError(item, rows) ==
    IF item.product_id \notin DOMAIN rows
    THEN "ProductNotFound" ELSE "NotEnoughStock"

(* items.map(item => ({product_id, product_name, quantity, price, total})) *)
OrderItemsData(items, rows) ==
    [i \in DOMAIN items |->
        [product_id |-> items[i].product_id,
         product_name |-> rows[items[i].product_id].name,
         quantity |-> items[i].quantity,
         price |-> rows[items[i].product_id].price,
         total |-> rows[items[i].product_id].price * items[i].quantity]]

OrderTotal(data) == SumSeq([i \in DOMAIN data |-> data[i].total])

OrderSelect(r) ==
    /\ pc[r] = "select"
    /\ \E ok \in BOOLEAN :
          /\ Attempt(ok)
          /\ IF ok
             THEN LET items == body[r].items
                      rows == SelectProducts({items[i].product_id : i \in DOMAIN items})
                      bad == BadLines(items, rows)
                  IN  IF bad # {}
                      THEN /\ pc' = [pc EXCEPT ![r] = "rollback"]
                           /\ local' = [local EXCEPT ![r] =
                                 [i |-> 0, products |-> rows,
                                  err |-> LineError(items[Min(bad)], rows)]]
                      ELSE /\ pc' = [pc EXCEPT ![r] = "insertOrder"]
                           /\ local' = [local EXCEPT ![r] =
                                 [i |-> 1, products |-> rows,
                                  orderItemsData |-> OrderItemsData(items, rows),
                                  orderTotal |-> OrderTotal(OrderItemsData(items, rows))]]
             ELSE OrderThrow(r, "StorageError")
    /\ UNCHANGED <<products, orders, order_items, notifications, autoInc,
                   emitted, body, resp, tx, stock0, nreq>>
    /\ Track(r, ghost[r])

(* INSERT INTO orders (user_name, total, payment_mode, status, created_at) *)
(* VALUES (?, ?, ?, 'pending', NOW())                                      *)
OrderInsertOrder(r) ==
    /\ pc[r] = "insertOrder"
    /\ \E ok \in BOOLEAN :
          /\ Attempt(ok)
          /\ IF ok
             THEN LET id == autoInc.orders
                  IN  /\ autoInc' = [autoInc EXCEPT !.orders = @ + 1]
                      /\ tx' = [tx EXCEPT ![r].orders = id :>
                                   [user_name |-> body[r].user_name,
                                    total |-> local[r].orderTotal,
                                    payment_mode |-> body[r].payment_mode,
                                    status |-> S_pending]]
                      /\ local' = [local EXCEPT ![r] =
                                      [f \in DOMAIN @ \cup {"orderId"} |->
                                          IF f = "orderId" THEN id ELSE @[f]]]
                      /\ pc' = [pc EXCEPT ![r] = "insertItems"]
             ELSE /\ OrderThrow(r, "StorageError")
                  /\ UNCHANGED <<autoInc, tx>>
    /\ UNCHANGED <<products, orders, order_items, notifications,
                   emitted, body, resp, stock0, nreq>>
    /\ Track(r, ghost[r])

(* INSERT INTO order_items (order_id, product_id, product_name, quantity, *)
(* price, total) VALUES ?                                                  *)
OrderItemsValues(orderId, data) ==
    [i \in DOMAIN data |->
        [order_id |-> orderId, product_id |-> data[i].product_id,
         product_name |-> data[i].product_name, quantity |-> data[i].quantity,
         price |-> data[i].price, total |-> data[i].total]]

OrderInsertItems(r) ==
    /\ pc[r] = "insertItems"
    /\ \E ok \in BOOLEAN :
          /\ Attempt(ok)
          /\ IF ok
             THEN /\ tx' = [tx EXCEPT ![r].order_items =
                               OrderItemsValues(local[r].orderId, local[r].orderItemsData)]
                  /\ pc' = [pc EXCEPT ![r] = "updateStock"]
                  /\ UNCHANGED local
             ELSE /\ OrderThrow(r, "StorageError")
                  /\ UNCHANGED tx
    /\ UNCHANGED <<products, orders, order_items, notifications, autoInc,
                   emitted, body, resp, stock0, nreq>>
    /\ Track(r, ghost[r])

(* One iteration of: for (const item of orderItemsData)                    *)
(*   UPDATE products SET stock=? WHERE id=?                                *)
(*          [product.stock - item.quantity, product.id]                    *)
(* where product is the row read by the SELECT.  The statement waits while *)
(* another transaction holds the row's lock; a row deleted meanwhile       *)
(* matches nothing.                                                        *)
OrderWants(r) ==
    local[r].orderItemsData[local[r].i].product_id

OrderWaits(r) ==
    /\ pc[r] = "updateStock"
    /\ LockHolders(OrderWants(r)) \ {r} # {}

(* InnoDB's deadlock detection: r waits for a row locked by q while q      *)
(* waits for a row locked by r.  The victim's statement throws and the     *)
(* server rolls its transaction back.                                      *)
OrderDeadlocked(r) ==
    /\ OrderWaits(r)
    /\ \E q \in LockHolders(OrderWants(r)) \ {r} :
          OrderWaits(q) /\ r \in LockHolders(OrderWants(q))

(* Mutant: the UPDATE is sent on the pool (db.query) instead of the       *)
(* transaction's connection, so it is committed at once.                  *)
OrderUpdateStock_Autocommit(r) ==
    /\ pc[r] = "updateStock"
    /\ UNCHANGED <<orders, order_items, notifications, autoInc,
                   emitted, body, resp, tx, stock0, nreq>>
    /\ LET item == local[r].orderItemsData[local[r].i]
           p == item.product_id
           value == local[r].products[p].stock - item.quantity
           next == IF local[r].i = Len(local[r].orderItemsData)
                   THEN "commit" ELSE "updateStock"
       IN  \E ok \in BOOLEAN :
             /\ Attempt(ok)
             /\ IF ok
                THEN /\ LockHolders(p) = {}
                     /\ products' =
                           [x \in DOMAIN products |->
                               IF x = p THEN [products[x] EXCEPT !.stock = value]
                               ELSE products[x]]
                     /\ pc' = [pc EXCEPT ![r] = next]
                     /\ local' = [local EXCEPT ![r].i = @ + 1]
                ELSE /\ OrderThrow(r, "StorageError")
                     /\ UNCHANGED products
    /\ Track(r, ghost[r])

OrderUpdateStock(r) ==
    /\ pc[r] = "updateStock"
    /\ UNCHANGED <<products, orders, order_items, notifications, autoInc,
                   emitted, body, resp, stock0, nreq>>
    /\ LET item == local[r].orderItemsData[local[r].i]
           p == item.product_id
           value == local[r].products[p].stock - item.quantity
           next == IF local[r].i = Len(local[r].orderItemsData)
                   THEN "commit" ELSE "updateStock"
       IN  \/ /\ OrderDeadlocked(r)
              /\ OrderThrow(r, "StorageError")
              /\ tx' = [tx EXCEPT ![r] = NoTx]
              /\ UNCHANGED faults
           \/ \E ok \in BOOLEAN :
                /\ Attempt(ok)
                /\ IF ok
                   THEN /\ LockHolders(p) \subseteq {r}
                        /\ tx' = IF p \in DOMAIN products
                                 THEN [tx EXCEPT ![r].stock =
                                         [x \in DOMAIN @ \cup {p} |->
                                             IF x = p THEN value ELSE @[x]]]
                                 ELSE tx
                        /\ pc' = [pc EXCEPT ![r] = next]
                        /\ local' = [local EXCEPT ![r].i = @ + 1]
                   ELSE /\ OrderThrow(r, "StorageError")
                        /\ UNCHANGED tx
    /\ Track(r, ghost[r])

(* The tables after the transaction's buffered writes are applied *)
ApplyStock(t) ==
    [p \in DOMAIN products |->
        IF p \in DOMAIN t.stock
        THEN [products[p] EXCEPT !.stock = t.stock[p]]
        ELSE products[p]]

(* await conn.commit(); res.json({message: "Order placed!", order_id});    *)
(* finally conn.release()                                                  *)
OrderCommit(r) ==
    /\ pc[r] = "commit"
    /\ UNCHANGED <<notifications, autoInc, emitted, body, stock0, nreq>>
    /\ \E ok \in BOOLEAN :
          /\ Attempt(ok)
          /\ IF ok
             THEN /\ products' = ApplyStock(tx[r])
                  /\ orders' = tx[r].orders @@ orders
                  /\ order_items' = order_items \o tx[r].order_items
                  /\ tx' = [tx EXCEPT ![r] = NoTx]
                  /\ Finish(r, Ok("Order placed!") @@ [order_id |-> local[r].orderId])
                  /\ Track(r, [ghost[r] EXCEPT !.responses = @ + 1,
                                               !.releases = @ + 1])
             ELSE /\ OrderThrow(r, "StorageError")
                  /\ UNCHANGED <<products, orders, order_items, tx, resp>>
                  /\ Track(r, ghost[r])

(* catch (err) { await conn.rollback(); res.status(500).json({error:       *)
(* err.message}); } finally { conn.release(); }                            *)
(* When the rollback itself rejects, the catch block is left by the        *)
(* exception: no response is sent, the connection is still released, and   *)
(* the server discards the transaction with the broken connection.         *)
OrderRollback(r) ==
    /\ pc[r] = "rollback"
    /\ tx' = [tx EXCEPT ![r] = NoTx]
    /\ UNCHANGED <<products, orders, order_items, notifications, autoInc,
                   emitted, body, stock0, nreq>>
    /\ \E ok \in BOOLEAN :
          /\ Attempt(ok)
          /\ IF ok
             THEN /\ Finish(r, Err(500, local[r].err))
                  /\ Track(r, [ghost[r] EXCEPT !.responses = @ + 1,
                                               !.releases = @ + 1])
             ELSE /\ Finish(r, NoResp)
                  /\ Track(r, [ghost[r] EXCEPT !.releases = @ + 1])

(* The steps of a place-order request after it has been received *)
OrderStep(r) ==
    \/ OrderGetConnection(r)
    \/ OrderBeginTransaction(r)
    \/ OrderSelect(r)
    \/ OrderInsertOrder(r)
    \/ OrderInsertItems(r)
    \/ OrderUpdateStock(r)
    \/ OrderCommit(r)
    \/ OrderRollback(r)

-----------------------------------------------------------------------------
(* sendNotification, checkLowStock, orderStatusNotification *)

Notification(type, reference_id, message) ==
    [type |-> type, reference_id |-> reference_id, message |-> message,
     isRead |-> 0]

(* sendNotification: INSERT INTO notifications ...; io.emit(...).  Both    *)
(* are inside the try block: a failure of either is logged and swallowed.  *)
(* inserted: the INSERT completed; broadcast: io.emit did not throw.       *)
sendNotification(n, inserted, broadcast) ==
    /\ notifications' =
          IF inserted
          THEN (autoInc.notifications :> n) @@ notifications
          ELSE notifications
    /\ autoInc' = IF inserted
                  THEN [autoInc EXCEPT !.notifications = @ + 1]
                  ELSE autoInc
    /\ emitted' = IF inserted /\ broadcast THEN emitted + 1 ELSE emitted

(* Mutant: checkLowStock never finds the stock low *)
checkLowStock_Never(stock) == FALSE

(* checkLowStock: if (Number(stock) < 20) sendNotification(...) *)
checkLowStock(stock) == stock < LowStockThreshold

LowStockNotification(id, name) ==
    Notification("low on supplies", id, <<"low", name>>)

(* orderStatusNotification: the message for the order row read, if any *)
StatusMessage(status) ==
    IF status = <<>> THEN "none"
    ELSE IF Includes(ToLowerCase(status), S_delivered) THEN "delivered"
    ELSE IF \/ Includes(ToLowerCase(status), S_cancelled)
            \/ Includes(ToLowerCase(status), S_returned)
         THEN "cancelled/returned"
    ELSE "none"

(* The handler is suspended in sendNotification; when it returns, the rest *)
(* of the handler runs to its response, local[r].after.                    *)
(* Mutant: a failure in the notifier is not caught and reaches the        *)
(* catch block of the handler, which answers 500.                         *)
SendNotification_Propagates(r) ==
    /\ pc[r] = "notify"
    /\ UNCHANGED <<products, orders, order_items, body, tx, stock0, nreq>>
    /\ \E inserted, broadcast \in BOOLEAN :
          /\ inserted \/ broadcast
          /\ Attempt(inserted /\ broadcast)
          /\ sendNotification(local[r].notification, inserted, broadcast)
          /\ local' = [local EXCEPT ![r] =
                          [f \in DOMAIN @ \cup {"sent"} |->
                              IF f = "sent" THEN inserted /\ broadcast ELSE @[f]]]
          /\ resp' = [resp EXCEPT ![r] =
                         IF inserted /\ broadcast THEN local[r].after
                         ELSE Err(500, "StorageError")]
    /\ pc' = [pc EXCEPT ![r] = "done"]
    /\ Track(r, [ghost[r] EXCEPT !.responses = @ + 1])

SendNotification(r) ==
    /\ pc[r] = "notify"
    /\ UNCHANGED <<products, orders, order_items, body, tx, stock0, nreq>>
    /\ \E inserted, broadcast \in BOOLEAN :
          /\ inserted \/ broadcast      \* a failed INSERT skips the broadcast
          /\ Attempt(inserted /\ broadcast)
          /\ sendNotification(local[r].notification, inserted, broadcast)
          /\ local' = [local EXCEPT ![r] =
                          [f \in DOMAIN @ \cup {"sent"} |->
                              IF f = "sent" THEN inserted /\ broadcast ELSE @[f]]]
    /\ pc' = [pc EXCEPT ![r] = "done"]
    /\ resp' = [resp EXCEPT ![r] = local[r].after]
    /\ Track(r, [ghost[r] EXCEPT !.responses = @ + 1])

(* Suspend the handler in sendNotification(n); response is what the        *)
(* handler answers once the notifier has returned.                         *)
Notify(r, n, response) ==
    /\ pc' = [pc EXCEPT ![r] = "notify"]
    /\ local' = [local EXCEPT ![r] =
                    [f \in DOMAIN @ \cup {"notification", "after"} |->
                        IF f = "notification" THEN n
                        ELSE IF f = "after" THEN response ELSE @[f]]]
    /\ UNCHANGED resp

-----------------------------------------------------------------------------
(* PUT /orders/:id/status *)

StatusBody(id, status) == [kind |-> "status", id |-> id, status |-> status]

StatusBodies ==
    { StatusBody(1, <<>>), StatusBody(1, S_Delivered), StatusBody(1, S_shipped),
      StatusBody(1, S_CANCELLED_by_customer), StatusBody(9, S_Delivered) }

(* Requests exercising the normalisation *)
StatusInputs ==
    { StatusBody(1, <<>>), StatusBody(9, S_Delivered),
      StatusBody(1, S_delivered), StatusBody(1, S_CANCELLED_by_customer),
      StatusBody(1, S_pending_padded), StatusBody(1, S_shipped_padded),
      StatusBody(1, S_returned), StatusBody(1, S_Returned_to_sender),
      StatusBody(1, S_delivered_not_pending) }

(* let normalizedStatus = status.trim(); then the three tests in turn *)
NormalizeStatus(status) ==
    LET s0 == Trim(status)
        s1 == IF TestIgnoreCase(S_cancelled, s0) THEN S_CancelledReturned ELSE s0
        s2 == IF TestIgnoreCase(S_delivered, s1) THEN S_Delivered ELSE s1
    IN  IF TestIgnoreCase(S_pending, s2) THEN S_Pending ELSE s2

(* if (!status) return res.status(400).json({error: "Status is required"}) *)
PutOrderStatus(r, bodies) ==
    /\ CanReceive(r)
    /\ \E b \in bodies :
          IF b.status = <<>>
          THEN Receive(r, b, "done", Err(400, "ValidationError"))
          ELSE Receive(r, b, "statusUpdate", NoResp)
    /\ UNCHANGED <<products, orders, order_items, notifications, autoInc,
                   emitted, tx, stock0, faults>>
    /\ Track(r, [Ghost0 EXCEPT !.responses =
                    IF pc'[r] = "done" THEN 1 ELSE 0])

(* Mutant: the UPDATE has no WHERE clause *)
StatusUpdate_AllOrders(r) ==
    /\ pc[r] = "statusUpdate"
    /\ UNCHANGED <<products, order_items, notifications, autoInc, emitted,
                   body, tx, stock0, nreq>>
    /\ \E ok \in BOOLEAN :
          /\ Attempt(ok)
          /\ IF ok
             THEN /\ orders' =
                       [o \in DOMAIN orders |->
                           [orders[o] EXCEPT
                               !.status = NormalizeStatus(body[r].status)]]
                  /\ pc' = [pc EXCEPT ![r] = "statusSelect"]
                  /\ UNCHANGED <<resp, local>>
                  /\ Track(r, ghost[r])
             ELSE /\ UNCHANGED orders
                  /\ Finish(r, Err(500, "StorageError"))
                  /\ Track(r, [ghost[r] EXCEPT !.responses = @ + 1])

(* UPDATE orders SET status=? WHERE id=?  [normalizedStatus, id] *)
StatusUpdate(r) ==
    /\ pc[r] = "statusUpdate"
    /\ UNCHANGED <<products, order_items, notifications, autoInc, emitted,
                   body, tx, stock0, nreq>>
    /\ \E ok \in BOOLEAN :
          /\ Attempt(ok)
          /\ IF ok
             THEN /\ orders' =
                       [o \in DOMAIN orders |->
                           IF o = body[r].id
                           THEN [orders[o] EXCEPT
                                   !.status = NormalizeStatus(body[r].status)]
                           ELSE orders[o]]
                  /\ pc' = [pc EXCEPT ![r] = "statusSelect"]
                  /\ UNCHANGED <<resp, local>>
                  /\ Track(r, ghost[r])
             ELSE /\ UNCHANGED orders
                  /\ Finish(r, Err(500, "StorageError"))
                  /\ Track(r, [ghost[r] EXCEPT !.responses = @ + 1])

(* SELECT id, user_name, status FROM orders WHERE id=?;                    *)
(* if (results.length > 0) await orderStatusNotification(results[0]);      *)
(* res.json({message: "Status updated!"})                                  *)
StatusSelect(r) ==
    /\ pc[r] = "statusSelect"
    /\ UNCHANGED <<products, orders, order_items, notifications, autoInc,
                   emitted, body, tx, stock0, nreq>>
    /\ \E ok \in BOOLEAN :
          /\ Attempt(ok)
          /\ IF ~ok
             THEN /\ Finish(r, Err(500, "StorageError"))
                  /\ Track(r, [ghost[r] EXCEPT !.responses = @ + 1])
             ELSE LET id == body[r].id
                      found == id \in DOMAIN orders
                      message == IF found
                                 THEN StatusMessage(orders[id].status)
                                 ELSE "none"
                  IN  IF message # "none"
                      THEN /\ Notify(r, Notification("status", id, <<message>>),
                                     Ok("Status updated!"))
                           /\ Track(r, ghost[r])
                      ELSE /\ Finish(r, Ok("Status updated!"))
                           /\ Track(r, [ghost[r] EXCEPT !.responses = @ + 1])

StatusStep(r) ==
    \/ StatusUpdate(r)
    \/ StatusSelect(r)

-----------------------------------------------------------------------------
(* Product requests.  A multipart field that is absent from the request is *)
(* undefined in req.body: given lists the fields present.  Number() of an  *)
(* absent field is NaN, which the driver writes into the statement as the  *)
(* bare word NaN, so the statement fails; an absent string is sent as NULL.*)

NULL == "NULL"

ProductFields == {"name", "price", "stock", "category", "description"}

ProductBody(kind, id, given, name, price, stock, file) ==
    [kind |-> kind, id |-> id, given |-> given, name |-> name,
     price |-> price, stock |-> stock, category |-> "flowers",
     description |-> "fresh", existingImageUrl |-> "img/a.jpg", file |-> file]

IsNaN(b, f) == f \notin b.given

Text(b, f) == IF f \in b.given THEN b[f] ELSE NULL

(* image_url: the uploaded file's path, else existingImageUrl *)
ImageUrl(b) ==
    IF b.file THEN "img/new.jpg"
    ELSE IF "existingImageUrl" \in b.given THEN b.existingImageUrl ELSE NULL

ProductRow(b) ==
    [name |-> Text(b, "name"), price |-> b.price, stock |-> b.stock,
     category |-> Text(b, "category"), description |-> Text(b, "description"),
     image_url |-> ImageUrl(b)]

(* The catch block of the product handlers: res.status(500).json({error:   *)
(* "Failed to ..."})                                                       *)
Failed == Err(500, "Failed")

-----------------------------------------------------------------------------
(* POST /products *)

CreateBodies ==
    { ProductBody("create", 0, ProductFields, "tulip", 4, 5, TRUE),
      ProductBody("create", 0, ProductFields, "tulip", 4, 25, TRUE),
      ProductBody("create", 0, ProductFields, "tulip", 4, -1, TRUE),
      ProductBody("create", 0, ProductFields, "tulip", 4, 5, FALSE) }

(* if (!req.file) return res.status(400).json(...) *)
PostProducts(r, bodies) ==
    /\ CanReceive(r)
    /\ \E b \in bodies :
          IF ~b.file
          THEN Receive(r, b, "done", Err(400, "ValidationError"))
          ELSE Receive(r, b, "createInsert", NoResp)
    /\ UNCHANGED <<products, orders, order_items, notifications, autoInc,
                   emitted, tx, stock0, faults>>
    /\ Track(r, [Ghost0 EXCEPT !.responses =
                    IF pc'[r] = "done" THEN 1 ELSE 0])

(* INSERT INTO products (...) VALUES (...);                                *)
(* if (stock < 20) await checkLowStock(result.insertId, stock, name);      *)
(* res.json({..., supply_alert: supplyAlert, ...}) -- supplyAlert is not   *)
(* declared in this handler: evaluating the argument throws a              *)
(* ReferenceError, and the catch block answers 500.                        *)
CreateInsert(r) ==
    /\ pc[r] = "createInsert"
    /\ UNCHANGED <<orders, order_items, emitted, body, tx, stock0, nreq>>
    /\ LET b == body[r]
           id == autoInc.products
       IN  IF IsNaN(b, "price") \/ IsNaN(b, "stock")
           THEN /\ UNCHANGED <<products, notifications, autoInc, faults>>
                /\ Finish(r, Failed)
                /\ Track(r, [ghost[r] EXCEPT !.responses = @ + 1])
           ELSE \E ok \in BOOLEAN :
                  /\ Attempt(ok)
                  /\ UNCHANGED notifications
                  /\ IF ~ok
                     THEN /\ UNCHANGED <<products, autoInc>>
                          /\ Finish(r, Failed)
                          /\ Track(r, [ghost[r] EXCEPT !.responses = @ + 1])
                     ELSE /\ products' = (id :> ProductRow(b)) @@ products
                          /\ autoInc' = [autoInc EXCEPT !.products = @ + 1]
                          /\ IF b.stock < LowStockThreshold /\ checkLowStock(b.stock)
                             THEN /\ Notify(r, LowStockNotification(id, b.name),
                                            Failed)
                                  /\ Track(r, ghost[r])
                             ELSE /\ Finish(r, Failed)
                                  /\ Track(r, [ghost[r] EXCEPT !.responses = @ + 1])

-----------------------------------------------------------------------------
(* PUT /products/:id *)

UpdateBodies ==
    { ProductBody("update", 1, ProductFields \cup {"existingImageUrl"},
                  "rose", 2, 15, FALSE),
      ProductBody("update", 1, ProductFields \cup {"existingImageUrl"},
                  "rose", 2, -1, FALSE),
      ProductBody("update", 2, ProductFields \cup {"existingImageUrl"},
                  "lily", 3, 3, FALSE),
      ProductBody("update", 9, ProductFields \cup {"existingImageUrl"},
                  "rose", 2, 15, FALSE) }

PutProducts(r, bodies) ==
    /\ CanReceive(r)
    /\ \E b \in bodies : Receive(r, b, "updateSelect", NoResp)
    /\ UNCHANGED <<products, orders, order_items, notifications, autoInc,
                   emitted, tx, stock0, faults>>
    /\ Track(r, Ghost0)

(* Requests that supply only some of the fields *)
UpdateInputs ==
    { ProductBody("update", 1, ProductFields \cup {"existingImageUrl"},
                  "rose", 2, 15, FALSE),
      ProductBody("update", 1, ProductFields \cup {"existingImageUrl"},
                  "rose", 2, 30, FALSE),
      ProductBody("update", 2, ProductFields \cup {"existingImageUrl"},
                  "lily", 3, 3, FALSE),
      ProductBody("update", 2, {"name", "price", "stock"}, "iris", 4, 8, FALSE),
      ProductBody("update", 1, {"name"}, "peony", 2, 25, FALSE),
      ProductBody("update", 9, {"name"}, "peony", 2, 25, FALSE) }

(* Mutant: the previous stock is not read and counts as high *)
UpdateSelect_NoPrev(r) ==
    /\ pc[r] = "updateSelect"
    /\ UNCHANGED <<products, orders, order_items, notifications, autoInc,
                   emitted, body, tx, stock0, nreq>>
    /\ \E ok \in BOOLEAN :
          /\ Attempt(ok)
          /\ IF ~ok
             THEN /\ Finish(r, Failed)
                  /\ Track(r, [ghost[r] EXCEPT !.responses = @ + 1])
             ELSE IF body[r].id \notin DOMAIN products
             THEN /\ Finish(r, Err(404, "NotFound"))
                  /\ Track(r, [ghost[r] EXCEPT !.responses = @ + 1])
             ELSE /\ pc' = [pc EXCEPT ![r] = "updateUpdate"]
                  /\ local' = [local EXCEPT ![r] =
                                  [i |-> 0,
                                   prevStock |-> LowStockThreshold,
                                   prevName |-> products[body[r].id].name]]
                  /\ UNCHANGED resp
                  /\ Track(r, ghost[r])

(* SELECT stock, name FROM products WHERE id = ?;                          *)
(* if (!prevRows.length) return res.status(404).json(...)                  *)
UpdateSelect(r) ==
    /\ pc[r] = "updateSelect"
    /\ UNCHANGED <<products, orders, order_items, notifications, autoInc,
                   emitted, body, tx, stock0, nreq>>
    /\ \E ok \in BOOLEAN :
          /\ Attempt(ok)
          /\ IF ~ok
             THEN /\ Finish(r, Failed)
                  /\ Track(r, [ghost[r] EXCEPT !.responses = @ + 1])
             ELSE IF body[r].id \notin DOMAIN products
             THEN /\ Finish(r, Err(404, "NotFound"))
                  /\ Track(r, [ghost[r] EXCEPT !.responses = @ + 1])
             ELSE /\ pc' = [pc EXCEPT ![r] = "updateUpdate"]
                  /\ local' = [local EXCEPT ![r] =
                                  [i |-> 0,
                                   prevStock |-> products[body[r].id].stock,
                                   prevName |-> products[body[r].id].name]]
                  /\ UNCHANGED resp
                  /\ Track(r, ghost[r])

(* UPDATE products SET name=?, price=?, stock=?, category=?,               *)
(* description=?, image_url=? WHERE id=?;                                  *)
(* if (stock < 20 && prevStock >= 20) await checkLowStock(...);            *)
(* res.json({message: "Product updated successfully", ...})                *)
(* The statement waits while an order's transaction holds the row's lock. *)
UpdateUpdate(r) ==
    /\ pc[r] = "updateUpdate"
    /\ UNCHANGED <<orders, order_items, emitted, body, tx, stock0, nreq>>
    /\ LET b == body[r]
           id == b.id
           productName == IF "name" \in b.given THEN b.name ELSE local[r].prevName
       IN  IF IsNaN(b, "price") \/ IsNaN(b, "stock")
           THEN /\ UNCHANGED <<products, notifications, autoInc, faults>>
                /\ Finish(r, Failed)
                /\ Track(r, [ghost[r] EXCEPT !.responses = @ + 1])
           ELSE \E ok \in BOOLEAN :
                  /\ Attempt(ok)
                  /\ UNCHANGED <<notifications, autoInc>>
                  /\ IF ~ok
                     THEN /\ UNCHANGED products
                          /\ Finish(r, Failed)
                          /\ Track(r, [ghost[r] EXCEPT !.responses = @ + 1])
                     ELSE /\ LockHolders(id) = {}
                          /\ products' =
                                [p \in DOMAIN products |->
                                    IF p = id THEN ProductRow(b) ELSE products[p]]
                          /\ IF /\ b.stock < LowStockThreshold
                                /\ local[r].prevStock >= LowStockThreshold
                                /\ checkLowStock(b.stock)
                             THEN /\ Notify(r, LowStockNotification(id, productName),
                                            Ok("Product updated successfully"))
                                  /\ Track(r, ghost[r])
                             ELSE /\ Finish(r, Ok("Product updated successfully"))
                                  /\ Track(r, [ghost[r] EXCEPT !.responses = @ + 1])

-----------------------------------------------------------------------------
(* DELETE /products/:id *)

DeleteBodies == {[kind |-> "delete", id |-> 1], [kind |-> "delete", id |-> 9]}

DeleteProducts(r, bodies) ==
    /\ CanReceive(r)
    /\ \E b \in bodies : Receive(r, b, "deleteSelect", NoResp)
    /\ UNCHANGED <<products, orders, order_items, notifications, autoInc,
                   emitted, tx, stock0, faults>>
    /\ Track(r, Ghost0)

(* SELECT image_url FROM products WHERE id = ?;                            *)
(* if (!rows.length) return res.status(404).json(...)                      *)
DeleteSelect(r) ==
    /\ pc[r] = "deleteSelect"
    /\ UNCHANGED <<products, orders, order_items, notifications, autoInc,
                   emitted, body, local, tx, stock0, nreq>>
    /\ \E ok \in BOOLEAN :
          /\ Attempt(ok)
          /\ IF ~ok
             THEN /\ pc' = [pc EXCEPT ![r] = "done"]
                  /\ resp' = [resp EXCEPT ![r] = Failed]
                  /\ Track(r, [ghost[r] EXCEPT !.responses = @ + 1])
             ELSE IF body[r].id \notin DOMAIN products
             THEN /\ pc' = [pc EXCEPT ![r] = "done"]
                  /\ resp' = [resp EXCEPT ![r] = Err(404, "NotFound")]
                  /\ Track(r, [ghost[r] EXCEPT !.responses = @ + 1])
             ELSE /\ pc' = [pc EXCEPT ![r] =
                              IF products[body[r].id].image_url # NULL
                              THEN "deleteDestroy" ELSE "deleteDelete"]
                  /\ UNCHANGED resp
                  /\ Track(r, ghost[r])

(* await cloudinary.uploader.destroy(publicId): a rejection goes to the    *)
(* catch block and the row is not deleted                                  *)
DeleteDestroy(r) ==
    /\ pc[r] = "deleteDestroy"
    /\ UNCHANGED <<products, orders, order_items, notifications, autoInc,
                   emitted, body, local, tx, stock0, nreq>>
    /\ \E ok \in BOOLEAN :
          /\ Attempt(ok)
          /\ IF ~ok
             THEN /\ pc' = [pc EXCEPT ![r] = "done"]
                  /\ resp' = [resp EXCEPT ![r] = Failed]
                  /\ Track(r, [ghost[r] EXCEPT !.responses = @ + 1])
             ELSE /\ pc' = [pc EXCEPT ![r] = "deleteDelete"]
                  /\ UNCHANGED resp
                  /\ Track(r, ghost[r])

(* DELETE FROM products WHERE id = ?; res.json({message: "Product deleted  *)
(* successfully"}).  The statement waits while an order's transaction      *)
(* holds the row's lock.                                                   *)
DeleteDelete(r) ==
    /\ pc[r] = "deleteDelete"
    /\ UNCHANGED <<orders, order_items, notifications, autoInc,
                   emitted, body, local, tx, stock0, nreq>>
    /\ \E ok \in BOOLEAN :
          /\ Attempt(ok)
          /\ pc' = [pc EXCEPT ![r] = "done"]
          /\ IF ~ok
             THEN /\ UNCHANGED products
                  /\ resp' = [resp EXCEPT ![r] = Failed]
             ELSE /\ LockHolders(body[r].id) = {}
                  /\ products' = Restrict(products, DOMAIN products \ {body[r].id})
                  /\ resp' = [resp EXCEPT ![r] = Ok("Product deleted successfully")]
    /\ Track(r, [ghost[r] EXCEPT !.responses = @ + 1])

ProductStep(r) ==
    \/ CreateInsert(r)
    \/ UpdateSelect(r)
    \/ UpdateUpdate(r)
    \/ DeleteSelect(r)
    \/ DeleteDestroy(r)
    \/ DeleteDelete(r)

-----------------------------------------------------------------------------
(* PUT /notifications/:id/read and DELETE /notifications/:id *)

NotificationBody(kind, id) == [kind |-> kind, id |-> id]

NotificationBodies ==
    { NotificationBody("read", 1), NotificationBody("read", 9),
      NotificationBody("deleteNotification", 2), NotificationBody("deleteNotification", 9) }

PutNotificationRead(r, bodies) ==
    /\ CanReceive(r)
    /\ \E b \in {x \in bodies : x.kind = "read"} :
          Receive(r, b, "notificationRead", NoResp)
    /\ UNCHANGED <<products, orders, order_items, notifications, autoInc,
                   emitted, tx, stock0, faults>>
    /\ Track(r, Ghost0)

(* UPDATE notifications SET isRead=1 WHERE id=?;                           *)
(* res.json({message: "Notification marked as read!"})                     *)
NotificationRead(r) ==
    /\ pc[r] = "notificationRead"
    /\ UNCHANGED <<products, orders, order_items, autoInc, emitted,
                   body, local, tx, stock0, nreq>>
    /\ \E ok \in BOOLEAN :
          /\ Attempt(ok)
          /\ pc' = [pc EXCEPT ![r] = "done"]
          /\ IF ok
             THEN /\ notifications' =
                       [n \in DOMAIN notifications |->
                           IF n = body[r].id
                           THEN [notifications[n] EXCEPT !.isRead = 1]
                           ELSE notifications[n]]
                  /\ resp' = [resp EXCEPT ![r] =
                                 Ok("Notification marked as read!")]
             ELSE /\ UNCHANGED notifications
                  /\ resp' = [resp EXCEPT ![r] = Err(500, "StorageError")]
    /\ Track(r, [ghost[r] EXCEPT !.responses = @ + 1])

DeleteNotifications(r, bodies) ==
    /\ CanReceive(r)
    /\ \E b \in {x \in bodies : x.kind = "deleteNotification"} :
          Receive(r, b, "notificationDelete", NoResp)
    /\ UNCHANGED <<products, orders, order_items, notifications, autoInc,
                   emitted, tx, stock0, faults>>
    /\ Track(r, Ghost0)

(* DELETE FROM notifications WHERE id=?;                                   *)
(* res.json({message: "Notification deleted!"})                            *)
NotificationDelete(r) ==
    /\ pc[r] = "notificationDelete"
    /\ UNCHANGED <<products, orders, order_items, autoInc, emitted,
                   body, local, tx, stock0, nreq>>
    /\ \E ok \in BOOLEAN :
          /\ Attempt(ok)
          /\ pc' = [pc EXCEPT ![r] = "done"]
          /\ IF ok
             THEN /\ notifications' =
                       Restrict(notifications,
                                DOMAIN notifications \ {body[r].id})
                  /\ resp' = [resp EXCEPT ![r] = Ok("Notification deleted!")]
             ELSE /\ UNCHANGED notifications
                  /\ resp' = [resp EXCEPT ![r] = Err(500, "StorageError")]
    /\ Track(r, [ghost[r] EXCEPT !.responses = @ + 1])

NotificationStep(r) ==
    \/ NotificationRead(r)
    \/ NotificationDelete(r)

-----------------------------------------------------------------------------
(* GET /orders and GET /products.  The handlers run one SELECT and answer  *)
(* its rows; they change nothing, so they are modelled by the rows they    *)
(* answer in the current state.  ORDER BY created_at is not modelled: the  *)
(* listings are sets of rows.                                              *)

OrderColumns(o) ==
    [order_id |-> o, user_name |-> orders[o].user_name,
     order_total |-> orders[o].total, payment_mode |-> orders[o].payment_mode,
     status |-> orders[o].status]

ItemColumns(i) ==
    [order_item_id |-> i, product_id |-> order_items[i].product_id,
     product_name |-> order_items[i].product_name,
     quantity |-> order_items[i].quantity,
     item_price |-> order_items[i].price,
     item_total |-> order_items[i].total]

(* p.image_url, IFNULL(p.category, p.name) AS category; NULL when the     *)
(* LEFT JOIN finds no product                                             *)
ProductColumns(p) ==
    IF p \in DOMAIN products
    THEN [image_url |-> products[p].image_url,
          category |-> IF products[p].category # NULL
                       THEN products[p].category ELSE products[p].name]
    ELSE [image_url |-> NULL, category |-> NULL]

(* Mutant: products is joined with an inner JOIN *)
ListOrders_InnerJoin ==
    { OrderColumns(order_items[i].order_id) @@ ItemColumns(i)
         @@ ProductColumns(order_items[i].product_id) :
        i \in {j \in DOMAIN order_items :
                  /\ order_items[j].order_id \in DOMAIN orders
                  /\ order_items[j].product_id \in DOMAIN products} }

(* FROM orders o LEFT JOIN order_items oi ON oi.order_id = o.id            *)
(*               LEFT JOIN products p ON oi.product_id = p.id              *)
ListOrders ==
    { OrderColumns(order_items[i].order_id) @@ ItemColumns(i)
         @@ ProductColumns(order_items[i].product_id) :
        i \in {j \in DOMAIN order_items :
                  order_items[j].order_id \in DOMAIN orders} }
    \cup
    { OrderColumns(o) :
        o \in {x \in DOMAIN orders :
                  \A j \in DOMAIN order_items : order_items[j].order_id # x} }

(* SELECT * FROM products, each row with its supply_alert *)
ListProducts ==
    { [id |-> p,
       supply_alert |-> IF products[p].stock < LowStockThreshold
                        THEN "LOW ON SUPPLIES" ELSE "OK"] @@ products[p] :
        p \in DOMAIN products }

-----------------------------------------------------------------------------
(* Initial states: an installed shop with a small catalog and no request   *)
(* in flight.                                                              *)

Product(n, pr, st) ==
    [name |-> n, price |-> pr, stock |-> st, category |-> "flowers",
     description |-> "fresh", image_url |-> "img/a.jpg"]

InitCatalogs ==
    { (1 :> Product("rose", 2, 1)) @@ (2 :> Product("lily", 3, 20)),
      (1 :> Product("rose", 2, 30)) @@ (2 :> Product("lily", 3, 20)) }

ShopCatalogs ==
    { (1 :> Product("rose", 2, 25)) @@ (2 :> Product("lily", 3, 5)) }

(* A committed order for one rose, present in the shop's history *)
PastOrders ==
    1 :> [user_name |-> "ben", total |-> 2, payment_mode |-> "cash",
          status |-> S_pending]

PastOrderItems ==
    << [order_id |-> 1, product_id |-> 1, product_name |-> "rose",
        quantity |-> 1, price |-> 2, total |-> 2] >>

InitWith(catalogs, pastOrders, pastItems) ==
    /\ products \in catalogs
    /\ orders = pastOrders
    /\ order_items = pastItems
    /\ notifications = <<>>
    /\ autoInc = [products |-> 3, orders |-> Len(pastItems) + 1,
                  notifications |-> 1]
    /\ emitted = 0
    /\ pc = [r \in Reqs |-> "idle"]
    /\ body = [r \in Reqs |-> NoBody]
    /\ local = [r \in Reqs |-> NoLocal]
    /\ resp = [r \in Reqs |-> NoResp]
    /\ tx = [r \in Reqs |-> NoTx]
    /\ ghost = [r \in Reqs |-> Ghost0]
    /\ stock0 = [p \in DOMAIN products |-> products[p].stock]
    /\ faults = 0
    /\ nreq = 0

(* A shop with a catalog, one past order and no notification *)
Init == InitWith(ShopCatalogs, PastOrders, PastOrderItems)

(* A shop whose order has been delivered and that holds two notifications *)
PastNotifications ==
    (1 :> LowStockNotification(2, "lily"))
       @@ (2 :> Notification("status", 1, <<"delivered">>))

InitNotifications ==
    /\ products \in ShopCatalogs
    /\ orders = (1 :> [PastOrders[1] EXCEPT !.status = S_Delivered])
    /\ order_items = PastOrderItems
    /\ notifications = PastNotifications
    /\ autoInc = [products |-> 3, orders |-> 2, notifications |-> 3]
    /\ emitted = 0
    /\ pc = [r \in Reqs |-> "idle"]
    /\ body = [r \in Reqs |-> NoBody]
    /\ local = [r \in Reqs |-> NoLocal]
    /\ resp = [r \in Reqs |-> NoResp]
    /\ tx = [r \in Reqs |-> NoTx]
    /\ ghost = [r \in Reqs |-> Ghost0]
    /\ stock0 = [p \in DOMAIN products |-> products[p].stock]
    /\ faults = 0
    /\ nreq = 0

(* A shop that has not sold anything yet *)
InitOrders == InitWith(InitCatalogs, <<>>, <<>>)

(* Order, catalog and status requests together, over the shop *)
ShopOrderBodies == { OrderBody(<<Item(1, 1)>>), OrderBody(<<Item(2, 6)>>) }

Next ==
    \E r \in Reqs :
        \/ PostOrders(r, ShopOrderBodies)
        \/ OrderStep(r)
        \/ PostProducts(r, CreateBodies)
        \/ PutProducts(r, UpdateBodies)
        \/ DeleteProducts(r, DeleteBodies)
        \/ ProductStep(r)
        \/ PutOrderStatus(r, StatusBodies)
        \/ StatusStep(r)
        \/ SendNotification(r)

Spec == Init /\ [][Next]_vars

-----------------------------------------------------------------------------
(* Properties of POST /orders *)

IsOrder(r) == body[r].kind = "order"

Done(r) == pc[r] = "done"

(* The request read the catalog: its SELECT completed *)
HasRead(r) == "products" \in DOMAIN local[r]

Lines(r) == DOMAIN body[r].items

OrderProducts(r) == {body[r].items[i].product_id : i \in Lines(r)}

(* Quantity of product p ordered by the request in slot r *)
QuantityOf(r, p) ==
    SumSeq([i \in Lines(r) |->
              IF body[r].items[i].product_id = p
              THEN body[r].items[i].quantity ELSE 0])

(* Quantity of product p in the persisted line items *)
QuantitySold(p) ==
    SumSeq([i \in DOMAIN order_items |->
              IF order_items[i].product_id = p
              THEN order_items[i].quantity ELSE 0])

Succeeded(r) == Done(r) /\ resp[r].status = 200

Committing(r) == pc[r] = "commit" /\ pc'[r] = "done" /\ resp'[r].status = 200

(* C2: two orders, each for one unit of product 1 whose stock is 1, have   *)
(* both ended with a response that is not a storage failure: exactly one   *)
(* succeeded, the other failed for insufficient stock, one order is        *)
(* persisted and the stock is 0.                                           *)
LastUnitRace ==
    /\ stock0[1] = 1
    /\ nreq = 2
    /\ \A r \in {1, 2} :
          /\ Done(r)
          /\ body[r] = OrderBody(<<Item(1, 1)>>)
          /\ resp[r].status # 0
          /\ resp[r].error # "StorageError"

C2_LastUnitExactlyOneWins ==
    LastUnitRace =>
        /\ \E r \in {1, 2} :
              /\ resp[r].status = 200
              /\ resp[3 - r].status = 500
              /\ resp[3 - r].error = "NotEnoughStock"
        /\ Cardinality(DOMAIN orders) = 1
        /\ products[1].stock = 0

(* C3: when no order holds two lines for one product, each product's stock *)
(* is its initial stock minus the quantities of all committed line items   *)
(* for it.                                                                 *)
NoDuplicateLines ==
    \A i, j \in DOMAIN order_items :
        (/\ order_items[i].order_id = order_items[j].order_id
         /\ order_items[i].product_id = order_items[j].product_id) => i = j

C3_NoDecrementLost ==
    NoDuplicateLines =>
        \A p \in DOMAIN products :
            products[p].stock = stock0[p] - QuantitySold(p)

(* C4: the products table changes only in the commit step of an order, and *)
(* that one step writes every product of the order; a request that has     *)
(* ended changed the tables in one step if it succeeded and never if not.  *)
AllLinesApplied(r) ==
    \A p \in OrderProducts(r) \cap DOMAIN products :
        \E i \in Lines(r) :
            /\ body[r].items[i].product_id = p
            /\ products'[p].stock =
                  local[r].products[p].stock - body[r].items[i].quantity

AllOrNothingStep ==
    products' # products =>
        \E r \in Reqs : IsOrder(r) /\ Committing(r) /\ AllLinesApplied(r)

AllOrNothingEnd ==
    \A r \in Reqs :
        (IsOrder(r) /\ Done(r)) =>
            ghost[r].effects = IF resp[r].status = 200 THEN 1 ELSE 0

C4_DecrementsAllOrNothing ==
    [](AllOrNothingEnd) /\ [][AllOrNothingStep]_vars

C4_Witness ==
    \E r \in Reqs :
        /\ IsOrder(r) /\ Succeeded(r)
        /\ body[r].items = <<Item(1, 1), Item(2, 1)>>
        /\ products[1].stock = stock0[1] - 1
        /\ products[2].stock = stock0[2] - 1
        /\ \E q \in Reqs : IsOrder(q) /\ pc[q] = "commit"

(* C5: the commit of an order persists a total equal to the sum of its    *)
(* line totals, every line total is unit price times quantity, and every  *)
(* referenced product's stock drops by the quantity ordered of it.        *)
LinesOf(items, id) == {i \in DOMAIN items : items[i].order_id = id}

LineTotalsOf(items, id) ==
    SumSeq([i \in DOMAIN items |->
              IF items[i].order_id = id THEN items[i].total ELSE 0])

CommitIsExact(r) ==
    LET id == local[r].orderId
    IN  /\ orders'[id].total = LineTotalsOf(order_items', id)
        /\ \A i \in LinesOf(order_items', id) :
              order_items'[i].total =
                 local[r].products[order_items'[i].product_id].price
                    * order_items'[i].quantity
        /\ \A p \in OrderProducts(r) \cap DOMAIN products :
              products'[p].stock = products[p].stock - QuantityOf(r, p)

C5_TotalsAndStockExact ==
    [][\A r \in Reqs : (IsOrder(r) /\ Committing(r)) => CommitIsExact(r)]_vars

(* What the request read about its lines *)
LineMissing(r, i) ==
    body[r].items[i].product_id \notin DOMAIN local[r].products

LineExceeds(r, i) ==
    /\ ~LineMissing(r, i)
    /\ body[r].items[i].quantity >
          local[r].products[body[r].items[i].product_id].stock

LineFails(r, i) == LineMissing(r, i) \/ LineExceeds(r, i)

(* The error of the first line, in item order, that fails *)
FirstFailure(r) ==
    LET i == CHOOSE k \in Lines(r) :
                LineFails(r, k) /\ \A j \in Lines(r) : j < k => ~LineFails(r, j)
    IN  IF LineMissing(r, i) THEN "ProductNotFound" ELSE "NotEnoughStock"

(* C6 as stated: an order with a line for an unknown product is answered *)
(* with a product-not-found error and changes nothing.                    *)
C6_UnknownProductNotFound ==
    \A r \in Reqs :
        (/\ IsOrder(r) /\ Done(r) /\ HasRead(r) /\ faults = 0
         /\ \E i \in Lines(r) : LineMissing(r, i))
        => /\ resp[r] = Err(500, "ProductNotFound")
           /\ ghost[r].effects = 0

(* C6 as amended: such an order changes nothing, and any response it      *)
(* sends is a failure carrying the error of its first failing line:       *)
(* product-not-found, or insufficient-stock when an earlier line exceeds  *)
(* the stock.                                                             *)
C6_UnknownProductNoMutation ==
    \A r \in Reqs :
        (/\ IsOrder(r) /\ Done(r) /\ HasRead(r)
         /\ \E i \in Lines(r) : LineMissing(r, i))
        => /\ ghost[r].effects = 0
           /\ resp[r].status # 200
           /\ resp[r].status # 0 => resp[r] = Err(500, FirstFailure(r))

C6_Witness ==
    \E r \in Reqs :
        /\ IsOrder(r) /\ Done(r) /\ HasRead(r)
        /\ body[r].items = <<Item(2, 1), Item(9, 1)>>
        /\ resp[r] = Err(500, "ProductNotFound")
        /\ products[2].stock = stock0[2]
        /\ orders = <<>> /\ order_items = <<>>

(* C7 as stated: an order with a line above the stock is answered with   *)
(* an insufficient-stock error and changes nothing.                       *)
C7_ExceedingInsufficientStock ==
    \A r \in Reqs :
        (/\ IsOrder(r) /\ Done(r) /\ HasRead(r) /\ faults = 0
         /\ \E i \in Lines(r) : LineExceeds(r, i))
        => /\ resp[r] = Err(500, "NotEnoughStock")
           /\ ghost[r].effects = 0

(* C7 as amended: such an order changes nothing, and any response it      *)
(* sends is a failure carrying the error of its first failing line:       *)
(* insufficient-stock, or product-not-found when an earlier line names an *)
(* unknown product.  With stock 30, a lone order for 15 leaves stock 15,  *)
(* and an order for 16 that reads stock 15 fails and changes nothing.     *)
C7_ExceedingNoMutation ==
    \A r \in Reqs :
        /\ (/\ IsOrder(r) /\ Done(r) /\ HasRead(r)
            /\ \E i \in Lines(r) : LineExceeds(r, i))
           => /\ ghost[r].effects = 0
              /\ resp[r].status # 200
              /\ resp[r].status # 0 => resp[r] = Err(500, FirstFailure(r))
        /\ (/\ IsOrder(r) /\ Succeeded(r) /\ nreq = 1
            /\ body[r].items = <<Item(1, 15)>> /\ stock0[1] = 30)
           => products[1].stock = 15
        /\ (/\ IsOrder(r) /\ Done(r) /\ HasRead(r) /\ resp[r].status # 0
            /\ body[r].items = <<Item(1, 16)>>
            /\ local[r].products[1].stock = 15)
           => resp[r] = Err(500, "NotEnoughStock")

C7_Witness ==
    \E r \in Reqs :
        /\ IsOrder(r) /\ Done(r) /\ HasRead(r)
        /\ stock0[1] = 30
        /\ body[r].items = <<Item(1, 16)>>
        /\ local[r].products[1].stock = 15
        /\ resp[r] = Err(500, "NotEnoughStock")
        /\ products[1].stock = 15
        /\ Cardinality(DOMAIN orders) = 1

(* C8: an order with an empty customer name, payment mode or item list,   *)
(* or with a quantity that is not positive, is answered with a validation *)
(* error before storage is touched, and changes nothing.                  *)
NotPositive(b) == \E i \in DOMAIN b.items : b.items[i].quantity <= 0

C8_InvalidOrderRejected ==
    \A r \in Reqs :
        (/\ IsOrder(r) /\ Done(r) /\ faults = 0
         /\ OrderBodyInvalid(body[r]) \/ NotPositive(body[r]))
        => /\ resp[r] = Err(400, "ValidationError")
           /\ ~ghost[r].conn
           /\ ghost[r].effects = 0

(* C9: once the only order so far has committed, each of its products     *)
(* whose stock it brought below the threshold eventually has exactly one  *)
(* low-stock notification, and a product it left at or above the          *)
(* threshold has none.                                                    *)
LowStockNotifications(p) ==
    {n \in DOMAIN notifications :
        /\ notifications[n].type = "low on supplies"
        /\ notifications[n].reference_id = p}

BroughtLow(r, p) ==
    \E i \in Lines(r) :
        /\ body[r].items[i].product_id = p
        /\ local[r].products[p].stock - body[r].items[i].quantity
              < LowStockThreshold

FirstOrderCommitted(r) ==
    IsOrder(r) /\ Succeeded(r) /\ nreq = 1 /\ ~NotPositive(body[r])

C9_OrderLowStockNotified ==
    /\ \A p \in {1, 2} :
          (\E r \in Reqs : FirstOrderCommitted(r) /\ BroughtLow(r, p))
             ~> (Cardinality(LowStockNotifications(p)) = 1)
    /\ [](\A r \in Reqs :
             FirstOrderCommitted(r) =>
                \A p \in OrderProducts(r) :
                   ~BroughtLow(r, p) => LowStockNotifications(p) = {})

-----------------------------------------------------------------------------
(* Properties of the catalog and of the notifier *)

(* C1: every product's stock is >= 0 in every reachable state *)
C1_StockNeverNegative ==
    \A p \in DOMAIN products : products[p].stock >= 0

(* C10: a request that called the notifier answers what it answers when   *)
(* the notification succeeds, also when the INSERT fails or the broadcast *)
(* throws, and the notifier's step leaves the catalog and the orders as   *)
(* the request's write left them.                                         *)
Notified(r) == Done(r) /\ "sent" \in DOMAIN local[r]

AnswerAfterNotification(kind) ==
    CASE kind = "update" -> Ok("Product updated successfully")
      [] kind = "status" -> Ok("Status updated!")
      [] kind = "create" -> Err(500, "Failed")

NotifierOutcomeHidden ==
    \A r \in Reqs :
        Notified(r) => resp[r] = AnswerAfterNotification(body[r].kind)

NotifierKeepsChange ==
    \A r \in Reqs :
        (pc[r] = "notify" /\ pc'[r] = "done") =>
            UNCHANGED <<products, orders, order_items>>

C10_NotificationFailureSwallowed ==
    [](NotifierOutcomeHidden) /\ [][NotifierKeepsChange]_vars

C10_Witness ==
    \E r \in Reqs :
        /\ Notified(r) /\ ~local[r].sent
        /\ body[r].kind = "update"
        /\ resp[r] = Ok("Product updated successfully")
        /\ body[r].stock >= 0
        /\ products[body[r].id].stock = body[r].stock
        /\ notifications = <<>>

-----------------------------------------------------------------------------
(* Properties of PUT /orders/:id/status *)

IsStatus(r) == body[r].kind = "status"

(* The status update-status is specified to store for a requested status *)
CanonicalStatus(status) ==
    IF \/ TestIgnoreCase(S_cancelled, status)
       \/ TestIgnoreCase(S_returned, status) THEN S_CancelledReturned
    ELSE IF TestIgnoreCase(S_delivered, status) THEN S_Delivered
    ELSE IF TestIgnoreCase(S_pending, status) THEN S_Pending
    ELSE Trim(status)

(* C11: the UPDATE of an update-status request on an existing order       *)
(* stores Cancelled/Returned for a status containing "cancelled" or       *)
(* "returned" in any case, Delivered for one containing "delivered",      *)
(* Pending for one containing "pending", and else the status trimmed.     *)
StatusStoredCanonical ==
    \A r \in Reqs :
        (/\ pc[r] = "statusUpdate" /\ pc'[r] = "statusSelect"
         /\ body[r].id \in DOMAIN orders)
        => orders'[body[r].id].status = CanonicalStatus(body[r].status)

C11_StatusNormalized == [][StatusStoredCanonical]_vars

(* C12: an update-status request on an existing order that ran alone and  *)
(* without a storage failure has recorded exactly one notification for    *)
(* the order, with the delivered message if the status now stored is      *)
(* Delivered and with the cancelled/returned message if it is             *)
(* Cancelled/Returned, and has recorded none if it is any other status.   *)
StatusNotifications(o) ==
    {n \in DOMAIN notifications :
        /\ notifications[n].type = "status"
        /\ notifications[n].reference_id = o}

StatusMessagesOf(o) ==
    {notifications[n].message : n \in StatusNotifications(o)}

C12_StatusNotificationMatches ==
    \A r \in Reqs :
        (/\ IsStatus(r) /\ Done(r) /\ resp[r].status = 200
         /\ nreq = 1 /\ faults = 0
         /\ body[r].id \in DOMAIN orders)
        => LET o == body[r].id
           IN  /\ Cardinality(StatusNotifications(o)) =
                     IF orders[o].status \in {S_Delivered, S_CancelledReturned}
                     THEN 1 ELSE 0
               /\ orders[o].status = S_Delivered
                     => StatusMessagesOf(o) = {<<"delivered">>}
               /\ orders[o].status = S_CancelledReturned
                     => StatusMessagesOf(o) = {<<"cancelled/returned">>}

(* C13: an update-status request for an order id that does not exist is   *)
(* answered with a not-found error, and one without a status with a       *)
(* validation error; neither changes an order or records a notification.  *)
C13_UnknownOrderNotFound ==
    \A r \in Reqs :
        (IsStatus(r) /\ Done(r) /\ faults = 0) =>
            /\ body[r].status = <<>> =>
                  resp[r] = Err(400, "ValidationError") /\ ghost[r].effects = 0
            /\ (body[r].status # <<>> /\ body[r].id \notin DOMAIN orders) =>
                  resp[r] = Err(404, "NotFound") /\ ghost[r].effects = 0

-----------------------------------------------------------------------------
(* Properties of the product requests *)

IsUpdate(r) == body[r].kind = "update"

IsCreate(r) == body[r].kind = "create"

(* The request ran alone, and no statement failed *)
Alone(r) == Done(r) /\ nreq = 1 /\ faults = 0

(* C14: an update-product request that ran alone and succeeded has        *)
(* recorded one low-stock notification for its product if the stock was   *)
(* >= 20 before it and is < 20 after it, and none otherwise: 25 to 15     *)
(* records one, 5 to 3 records none.                                      *)
C14_UpdateNotifiesOnCrossing ==
    \A r \in Reqs :
        (IsUpdate(r) /\ Alone(r) /\ resp[r].status = 200) =>
            LET id == body[r].id
                crossing == /\ stock0[id] >= LowStockThreshold
                            /\ products[id].stock < LowStockThreshold
            IN  /\ Cardinality(LowStockNotifications(id)) =
                      IF crossing THEN 1 ELSE 0
                /\ DOMAIN notifications = LowStockNotifications(id)
                /\ (stock0[id] = 5 /\ products[id].stock = 3)
                      => notifications = <<>>
                /\ (stock0[id] = 25 /\ products[id].stock = 15)
                      => Cardinality(DOMAIN notifications) = 1

C14_Witness ==
    \E r \in Reqs :
        /\ IsUpdate(r) /\ Alone(r) /\ resp[r].status = 200
        /\ body[r].id = 1
        /\ stock0[1] = 25 /\ products[1].stock = 15
        /\ Cardinality(LowStockNotifications(1)) = 1

(* The product row a create-product request inserted, if it inserted one *)
Persisted(r) == ghost[r].effects >= 1

NewProduct == autoInc.products - 1

(* C15: a create-product request that ran alone and persisted a product   *)
(* has recorded exactly one low-stock notification referencing the new    *)
(* product if its stock is < 20, and none if its stock is >= 20.          *)
C15_CreateNotifiesWhenLow ==
    \A r \in Reqs :
        (IsCreate(r) /\ Alone(r) /\ Persisted(r)) =>
            /\ NewProduct \in DOMAIN products
            /\ products[NewProduct].stock = body[r].stock
            /\ Cardinality(LowStockNotifications(NewProduct)) =
                  IF body[r].stock < LowStockThreshold THEN 1 ELSE 0
            /\ DOMAIN notifications = LowStockNotifications(NewProduct)

C15_Witness ==
    \E r \in Reqs :
        /\ IsCreate(r) /\ Alone(r) /\ Persisted(r)
        /\ body[r].stock = 5
        /\ products[NewProduct].stock = 5
        /\ Cardinality(LowStockNotifications(NewProduct)) = 1

(* C16: a create-product request that has ended answers 200 with the new  *)
(* product's id exactly when it persisted a product row, and when it      *)
(* answers an error the catalog and the notifications are as they were.   *)
C16_CreateReportsSuccess ==
    \A r \in Reqs :
        (IsCreate(r) /\ Done(r) /\ resp[r].status # 0) =>
            /\ Persisted(r) => resp[r].status = 200
            /\ resp[r].status # 200 => ghost[r].effects = 0

(* C18: an update-product request leaves every field it does not supply   *)
(* as it was, and applies the others; for an unknown product id it        *)
(* answers not-found and changes nothing.                                 *)
Supplied(b, f) ==
    IF f = "image_url" THEN b.file \/ "existingImageUrl" \in b.given
    ELSE f \in b.given

OmittedFieldsKept ==
    \A r \in Reqs :
        (IsUpdate(r) /\ pc[r] = "updateUpdate" /\ pc'[r] # "updateUpdate") =>
            \A f \in ProductFields \cup {"image_url"} :
                (body[r].id \in DOMAIN products /\ ~Supplied(body[r], f)) =>
                    products'[body[r].id][f] = products[body[r].id][f]

PartialUpdateApplied ==
    \A r \in Reqs :
        (IsUpdate(r) /\ Alone(r)) =>
            IF body[r].id \in DOMAIN stock0
            THEN /\ resp[r].status = 200
                 /\ \A f \in ProductFields \cap body[r].given :
                       products[body[r].id][f] = body[r][f]
            ELSE resp[r] = Err(404, "NotFound") /\ ghost[r].effects = 0

C18_PartialUpdateKeepsOmitted ==
    [](PartialUpdateApplied) /\ [][OmittedFieldsKept]_vars

-----------------------------------------------------------------------------
(* Properties of the order history *)

IsDelete(r) == body[r].kind = "delete"

(* The columns of the order listing that come from the order and its     *)
(* line items                                                            *)
SnapshotColumns ==
    {"order_id", "user_name", "order_total", "payment_mode", "status",
     "order_item_id", "product_id", "product_name", "quantity",
     "item_price", "item_total"}

Snapshots(rows) ==
    { [f \in SnapshotColumns \cap DOMAIN row |-> row[f]] : row \in rows }

(* C17: every step of a delete-product request leaves the orders and the  *)
(* line items as they are, the order listing shows the same orders and    *)
(* line snapshots after it as before, and once the request has answered   *)
(* 200 its step has removed the product from the product listing.         *)
DeleteKeepsHistory ==
    \A r \in Reqs :
        (IsDelete(r) /\ pc[r] # "done" /\ pc'[r] # pc[r]) =>
            /\ orders' = orders
            /\ order_items' = order_items
            /\ Snapshots(ListOrders') = Snapshots(ListOrders)
            /\ resp'[r].status = 200 =>
                  \A row \in ListProducts' : row.id # body[r].id

C17_DeleteKeepsLineItems == [][DeleteKeepsHistory]_vars

C17_Witness ==
    \E r \in Reqs :
        /\ IsDelete(r) /\ Done(r) /\ resp[r].status = 200
        /\ body[r].id = 1
        /\ \A row \in ListProducts : row.id # 1
        /\ \E row \in ListOrders :
              /\ row.product_id = 1 /\ row.product_name = "rose"
              /\ row.item_price = 2 /\ row.quantity = 1 /\ row.item_total = 2
              /\ row.image_url = NULL

(* C19: no step changes the total, the customer or the payment mode of   *)
(* an existing order or any column of an existing line item, and no       *)
(* order or line item disappears; a step of an update-status request      *)
(* changes at most the status of the order it addresses.                  *)
OrdersFrozen ==
    /\ \A o \in DOMAIN orders :
          /\ o \in DOMAIN orders'
          /\ orders'[o].total = orders[o].total
          /\ orders'[o].user_name = orders[o].user_name
          /\ orders'[o].payment_mode = orders[o].payment_mode
    /\ \A i \in DOMAIN order_items :
          i \in DOMAIN order_items' /\ order_items'[i] = order_items[i]

StatusOnlyAddressed ==
    \A r \in Reqs :
        (/\ IsStatus(r)
         /\ pc[r] \in {"statusUpdate", "statusSelect", "notify"}
         /\ pc'[r] # pc[r])
        => /\ order_items' = order_items
           /\ DOMAIN orders' = DOMAIN orders
           /\ \A o \in DOMAIN orders :
                 o # body[r].id => orders'[o] = orders[o]

C19_CommittedOrderImmutable ==
    [][OrdersFrozen /\ StatusOnlyAddressed]_vars

C19_Witness ==
    /\ orders[1].status = S_Delivered
    /\ orders[1].total = 2
    /\ order_items[1] = PastOrderItems[1]
    /\ Cardinality(DOMAIN orders) = 2
    /\ orders[2].status = S_pending

-----------------------------------------------------------------------------
(* Properties of the notification requests *)

(* C20: the statement of a mark-as-read or delete request, when it does   *)
(* not fail, answers not-found and leaves the notifications as they are   *)
(* if the id does not exist; on an existing id, mark-as-read sets only    *)
(* that notification's read flag and delete removes only that             *)
(* notification.                                                          *)
NotificationStatement(r) ==
    /\ pc[r] \in {"notificationRead", "notificationDelete"}
    /\ pc'[r] = "done"
    /\ faults' = faults

NotificationStatementExact ==
    \A r \in Reqs :
        NotificationStatement(r) =>
            IF body[r].id \notin DOMAIN notifications
            THEN /\ resp'[r] = Err(404, "NotFound")
                 /\ notifications' = notifications
            ELSE /\ resp'[r].status = 200
                 /\ body[r].kind = "read" =>
                       notifications' =
                          [notifications EXCEPT ![body[r].id].isRead = 1]
                 /\ body[r].kind = "deleteNotification" =>
                       notifications' =
                          Restrict(notifications,
                                   DOMAIN notifications \ {body[r].id})

C20_NotificationNotFound == [][NotificationStatementExact]_vars

-----------------------------------------------------------------------------
(* Properties of the handlers' ends and of their interleavings *)

(* C21: a place-order request that obtained a connection never sends more *)
(* than one response nor releases the connection more than once, and when *)
(* its handler has ended it has sent exactly one response and released    *)
(* the connection exactly once.                                           *)
C21_OrderRespondsReleasesOnce ==
    \A r \in Reqs :
        (IsOrder(r) /\ ghost[r].conn) =>
            /\ ghost[r].responses <= 1
            /\ ghost[r].releases <= 1
            /\ Done(r) => ghost[r].responses = 1 /\ ghost[r].releases = 1

(* C22: an order with several lines for one product, placed alone and    *)
(* without a storage failure, succeeds only if for each product the sum   *)
(* of its lines' quantities is within the stock, and on success each      *)
(* product's stock has dropped by that sum.                               *)
HasDuplicateLines(b) ==
    \E i, j \in DOMAIN b.items :
        i # j /\ b.items[i].product_id = b.items[j].product_id

C22_DuplicateLinesSummed ==
    \A r \in Reqs :
        (/\ IsOrder(r) /\ Succeeded(r) /\ nreq = 1 /\ faults = 0
         /\ HasDuplicateLines(body[r]))
        => \A p \in OrderProducts(r) :
              /\ QuantityOf(r, p) <= stock0[p]
              /\ products[p].stock = stock0[p] - QuantityOf(r, p)

(* C23: an update-status request on an existing order that has ended     *)
(* with no storage failure has recorded one notification, with the        *)
(* matching message, if the status it wrote is Delivered or               *)
(* Cancelled/Returned, and none if it wrote any other status, whatever    *)
(* other update-status requests did meanwhile.                            *)
StatusWritten(r) == NormalizeStatus(body[r].status)

RecordedMessages(r) ==
    IF Notified(r) /\ local[r].sent
    THEN {local[r].notification.message} ELSE {}

C23_NotificationOnOwnStatus ==
    \A r \in Reqs :
        (/\ IsStatus(r) /\ Done(r) /\ resp[r].status = 200 /\ faults = 0
         /\ body[r].id \in DOMAIN orders)
        => RecordedMessages(r) =
              IF StatusWritten(r) = S_Delivered THEN {<<"delivered">>}
              ELSE IF StatusWritten(r) = S_CancelledReturned
                   THEN {<<"cancelled/returned">>}
              ELSE {}

(* C24: when update-product requests only lower stocks and all have      *)
(* ended without a storage failure, a product's stock has crossed from    *)
(* >= 20 to < 20 once if it started at 20 or more and is below 20 now,    *)
(* and never otherwise; the product has that many low-stock               *)
(* notifications: two concurrent updates taking 25 below 20 record one.   *)
Quiescent == \A r \in Reqs : pc[r] \in {"idle", "done"}

Crossings(p) ==
    IF stock0[p] >= LowStockThreshold /\ products[p].stock < LowStockThreshold
    THEN 1 ELSE 0

C24_OneNotificationPerCrossing ==
    (Quiescent /\ faults = 0) =>
        \A p \in DOMAIN products :
            Cardinality(LowStockNotifications(p)) = Crossings(p)

(* Concurrent orders contending for the rows of the initial catalog *)
NextOrders == \E r \in Reqs : PostOrders(r, RaceBodies) \/ OrderStep(r)

SpecOrders == InitOrders /\ [][NextOrders]_vars

(* Orders with valid and invalid inputs *)
NextChecks == \E r \in Reqs : PostOrders(r, CheckBodies) \/ OrderStep(r)

SpecChecks == InitOrders /\ [][NextChecks]_vars

(* Orders whose lines name unknown products or exceed the stock *)
LineBodies ==
    { OrderBody(<<Item(1, 15)>>), OrderBody(<<Item(1, 16)>>),
      OrderBody(<<Item(2, 1), Item(9, 1)>>),
      OrderBody(<<Item(1, 99), Item(9, 1)>>),
      OrderBody(<<Item(9, 1), Item(1, 99)>>) }

NextLines == \E r \in Reqs : PostOrders(r, LineBodies) \/ OrderStep(r)

SpecLines == InitOrders /\ [][NextLines]_vars

(* Status updates of the shop's orders *)
NextStatus ==
    \E r \in Reqs :
        \/ PutOrderStatus(r, StatusInputs)
        \/ StatusStep(r)
        \/ SendNotification(r)

SpecStatus == Init /\ [][NextStatus]_vars

(* The catalog's requests *)
NextProducts ==
    \E r \in Reqs :
        \/ PostProducts(r, CreateBodies)
        \/ PutProducts(r, UpdateInputs)
        \/ DeleteProducts(r, DeleteBodies)
        \/ ProductStep(r)
        \/ SendNotification(r)

SpecProducts == Init /\ [][NextProducts]_vars

(* Notifications being read and deleted while status updates add more *)
NextNotifications ==
    \E r \in Reqs :
        \/ PutNotificationRead(r, NotificationBodies)
        \/ DeleteNotifications(r, NotificationBodies)
        \/ NotificationStep(r)
        \/ PutOrderStatus(r, {StatusBody(1, S_CANCELLED_by_customer)})
        \/ StatusStep(r)
        \/ SendNotification(r)

SpecNotifications == InitNotifications /\ [][NextNotifications]_vars

(* Orders that name one product on several lines *)
DuplicateBodies ==
    { OrderBody(<<Item(1, 1), Item(1, 1)>>),
      OrderBody(<<Item(1, 1), Item(1, 2)>>),
      OrderBody(<<Item(1, 2), Item(2, 1), Item(1, 1)>>),
      OrderBody(<<Item(1, 1), Item(2, 1)>>) }

NextDuplicates ==
    \E r \in Reqs : PostOrders(r, DuplicateBodies) \/ OrderStep(r)

SpecDuplicates == InitOrders /\ [][NextDuplicates]_vars

(* Concurrent status updates of one order *)
NextStatusRace ==
    \E r \in Reqs :
        \/ PutOrderStatus(r, StatusBodies)
        \/ StatusStep(r)
        \/ SendNotification(r)

SpecStatusRace == Init /\ [][NextStatusRace]_vars

(* Concurrent updates that lower the stock of the shop's products *)
LoweringBodies ==
    { ProductBody("update", 1, ProductFields \cup {"existingImageUrl"},
                  "rose", 2, 15, FALSE),
      ProductBody("update", 1, ProductFields \cup {"existingImageUrl"},
                  "rose", 2, 10, FALSE),
      ProductBody("update", 2, ProductFields \cup {"existingImageUrl"},
                  "lily", 3, 3, FALSE) }

NextUpdateRace ==
    \E r \in Reqs :
        \/ PutProducts(r, LoweringBodies)
        \/ UpdateSelect(r)
        \/ UpdateUpdate(r)
        \/ SendNotification(r)

SpecUpdateRace == Init /\ [][NextUpdateRace]_vars

(* The event loop runs every continuation that is ready: a handler that   *)
(* can take its next step eventually takes it.  Clients need not send     *)
(* requests.                                                              *)
FairOrders == \A r \in Reqs : WF_vars(OrderStep(r))

SpecChecksFair == SpecChecks /\ FairOrders

=============================================================================
